---- MODULE Spec2Model ----
(***************************************************************************)
(* Closed-form European option pricers (Bachelier, Black-Scholes) and the  *)
(* demonstration program that prints their results.                        *)
(*                                                                         *)
(* A double is modelled as the real-valued expression that produced it:    *)
(* an input is a rational literal <<"num", n, d>>, and every arithmetic    *)
(* operation or library call of the source builds the corresponding term.  *)
(* The library functions (sqrt, log, exp) and the normal distribution      *)
(* (cdf, pdf) stay uninterpreted.                                          *)
(***************************************************************************)
EXTENDS Integers, Sequences, FiniteSets, Bags, TLC

\* ------------------------------------------------------------------ bounds
MaxSpot == 2
MaxStrike == 1
MaxVol == 1
MaxT == 1
MaxRate == 1

\* ------------------------------------------------------- double arithmetic
Dbl(n, d) == <<"num", n, d>>
Neg(a) == <<"neg", a>>
Add(a, b) == <<"add", a, b>>
Sub(a, b) == <<"sub", a, b>>
Mul(a, b) == <<"mul", a, b>>
Div(a, b) == <<"div", a, b>>
sqrt(a) == <<"sqrt", a>>
log(a) == <<"log", a>>
exp(a) == <<"exp", a>>
M_PI == <<"pi">>
Half == Dbl(1, 2)

IsZero(a) == a[1] = "num" /\ a[2] = 0

\* IEEE-754 class of a quotient whose divisor is zero or not
FpClass(numIsZero, denIsZero) ==
  IF ~denIsZero THEN "finite" ELSE IF numIsZero THEN "nan" ELSE "inf"

\* ----------------------------------------------- StandardNormalDistribution
cdf(x) == <<"cdf", x>>
pdf(x) == <<"pdf", x>>

\* ------------------------------------------------------------ option types
Types == {"van call", "van put", "con call", "con put", "aon call", "aon put"}
BadTypes == {"bogus"}
AllTypes == Types \cup BadTypes

invalid_argument == <<"invalid_argument", "Option type is invalid. Check documentation">>

\* Contents of an uninitialized double local
Indeterminate == {Dbl(0, 1), Dbl(-7, 1)}

\* ---------------------------------------------------------------- Bachelier
\* double xs = (Strike - Spot) / (Spot * Vol * sqrt(T));
BachelierXs(Spot, Strike, Vol, T) ==
  Div(Sub(Strike, Spot), Mul(Mul(Spot, Vol), sqrt(T)))

BachelierXsClass(Spot, Strike, Vol, T) ==
  FpClass(Spot = Strike, IsZero(Spot) \/ IsZero(Vol) \/ IsZero(T))

\* return Vol * Spot * sqrt(0.5 * T / M_PI);
BachelierAtmWrong(Spot, Vol, T) ==
  Mul(Mul(Vol, Spot), sqrt(Div(T, M_PI)))

BachelierAtm(Spot, Vol, T) ==
  Mul(Mul(Vol, Spot), sqrt(Div(Mul(Half, T), M_PI)))

Assigned(v) == [kind |-> "return", val |-> v]
Thrown == [kind |-> "throw", val |-> invalid_argument]

\* the if / else-if chain on type; val is the local it assigns
BachelierTypeUnassigned(Spot, Strike, Vol, T, type, xs, val) ==
  LET sd == Mul(Mul(Spot, Vol), sqrt(T))
  IN CASE type = "van call" ->
            Assigned(Add(Mul(Sub(Spot, Strike), cdf(Neg(xs))), Mul(sd, pdf(Neg(xs)))))
       [] type = "van put" ->
            Assigned(Add(Mul(Sub(Strike, Spot), cdf(xs)), Mul(sd, pdf(xs))))
       [] type = "con call" -> Assigned(cdf(Neg(xs)))
       [] type = "con put" -> Assigned(cdf(xs))
       [] type = "aon call" ->
            Assigned(Add(Mul(Spot, cdf(Neg(xs))), Mul(sd, pdf(Neg(xs)))))
       [] type = "aon put" -> Assigned(val)
       [] OTHER -> Thrown

BachelierTypeSwapped(Spot, Strike, Vol, T, type, xs, val) ==
  LET sd == Mul(Mul(Spot, Vol), sqrt(T))
  IN CASE type = "van call" ->
            Assigned(Add(Mul(Sub(Spot, Strike), cdf(Neg(xs))), Mul(sd, pdf(Neg(xs)))))
       [] type = "van put" ->
            Assigned(Add(Mul(Sub(Strike, Spot), cdf(xs)), Mul(sd, pdf(xs))))
       [] type = "con call" -> Assigned(cdf(xs))
       [] type = "con put" -> Assigned(cdf(Neg(xs)))
       [] type = "aon call" ->
            Assigned(Add(Mul(Spot, cdf(Neg(xs))), Mul(sd, pdf(Neg(xs)))))
       [] type = "aon put" ->
            Assigned(Sub(Mul(Spot, cdf(xs)), Mul(sd, pdf(xs))))
       [] OTHER -> Thrown

BachelierType(Spot, Strike, Vol, T, type, xs, val) ==
  LET sd == Mul(Mul(Spot, Vol), sqrt(T))
  IN CASE type = "van call" ->
            Assigned(Add(Mul(Sub(Spot, Strike), cdf(Neg(xs))), Mul(sd, pdf(Neg(xs)))))
       [] type = "van put" ->
            Assigned(Add(Mul(Sub(Strike, Spot), cdf(xs)), Mul(sd, pdf(xs))))
       [] type = "con call" -> Assigned(cdf(Neg(xs)))
       [] type = "con put" -> Assigned(cdf(xs))
       [] type = "aon call" ->
            Assigned(Add(Mul(Spot, cdf(Neg(xs))), Mul(sd, pdf(Neg(xs)))))
       [] type = "aon put" ->
            Assigned(Sub(Mul(Spot, cdf(xs)), Mul(sd, pdf(xs))))
       [] OTHER -> Thrown

Bachelier(Spot, Strike, Vol, T, type, val) ==
  LET xs == BachelierXs(Spot, Strike, Vol, T)
      offs == BachelierXsClass(Spot, Strike, Vol, T)
  IN  IF Spot = Strike
      THEN [kind |-> "return", val |-> BachelierAtm(Spot, Vol, T),
            steps |-> <<"xs", "Spot == Strike">>, offs |-> offs]
      ELSE LET d == BachelierType(Spot, Strike, Vol, T, type, xs, val)
           IN [kind |-> d.kind, val |-> d.val,
               steps |-> <<"xs", "Spot == Strike", "type">>, offs |-> offs]

\* ------------------------------------------------------------- BlackScholes
\* double d1 = (log(Spot / Strike) + (r + 0.5 * Vol * Vol) * T) / (Vol * sqrt(T));
BlackScholesD1(Spot, Strike, r, Vol, T) ==
  Div(Add(log(Div(Spot, Strike)), Mul(Add(r, Mul(Mul(Half, Vol), Vol)), T)),
      Mul(Vol, sqrt(T)))

\* double d2 = (log(Spot / Strike) + (r - 0.5 * Vol * Vol) * T) / (Vol * sqrt(T));
BlackScholesD2(Spot, Strike, r, Vol, T) ==
  Div(Add(log(Div(Spot, Strike)), Mul(Sub(r, Mul(Mul(Half, Vol), Vol)), T)),
      Mul(Vol, sqrt(T)))

BlackScholesDClass(Spot, Strike, r, Vol, T) ==
  FpClass(Spot = Strike /\ (IsZero(T) \/ IsZero(r)), IsZero(Vol) \/ IsZero(T))

\* return Vol * Spot * sqrt(0.5 * T / M_PI);
BlackScholesAtm(Spot, Vol, T) ==
  Mul(Mul(Vol, Spot), sqrt(Div(Mul(Half, T), M_PI)))

\* the if / else-if chain on type; val is the local it assigns
BlackScholesTypeConPut(Spot, Strike, r, T, type, d1, d2, val) ==
  LET disc == exp(Mul(Neg(r), T))
  IN CASE type = "van call" ->
            Assigned(Sub(Mul(Spot, cdf(d1)), Mul(Mul(Strike, disc), cdf(d2))))
       [] type = "van put" ->
            Assigned(Add(Mul(Neg(Spot), cdf(Neg(d1))),
                         Mul(Mul(Strike, disc), cdf(Neg(d2)))))
       [] type = "con call" -> Assigned(Mul(disc, cdf(d2)))
       [] type = "con put" -> Assigned(Mul(disc, cdf(d2)))
       [] type = "aon call" -> Assigned(Mul(Spot, pdf(d1)))
       [] type = "aon put" -> Assigned(Mul(Spot, pdf(Neg(d1))))
       [] OTHER -> Thrown

BlackScholesTypeVanPut(Spot, Strike, r, T, type, d1, d2, val) ==
  LET disc == exp(Mul(Neg(r), T))
  IN CASE type = "van call" ->
            Assigned(Sub(Mul(Spot, cdf(d1)), Mul(Mul(Strike, disc), cdf(d2))))
       [] type = "van put" ->
            Assigned(Add(Mul(Neg(Spot), cdf(Neg(d1))),
                         Mul(Mul(Strike, disc), cdf(Neg(d1)))))
       [] type = "con call" -> Assigned(Mul(disc, cdf(d2)))
       [] type = "con put" -> Assigned(Mul(disc, cdf(Neg(d2))))
       [] type = "aon call" -> Assigned(Mul(Spot, pdf(d1)))
       [] type = "aon put" -> Assigned(Mul(Spot, pdf(Neg(d1))))
       [] OTHER -> Thrown

BlackScholesTypeAonCdf(Spot, Strike, r, T, type, d1, d2, val) ==
  LET disc == exp(Mul(Neg(r), T))
  IN CASE type = "van call" ->
            Assigned(Sub(Mul(Spot, cdf(d1)), Mul(Mul(Strike, disc), cdf(d2))))
       [] type = "van put" ->
            Assigned(Add(Mul(Neg(Spot), cdf(Neg(d1))),
                         Mul(Mul(Strike, disc), cdf(Neg(d2)))))
       [] type = "con call" -> Assigned(Mul(disc, cdf(d2)))
       [] type = "con put" -> Assigned(Mul(disc, cdf(Neg(d2))))
       [] type = "aon call" -> Assigned(Mul(Spot, cdf(d1)))
       [] type = "aon put" -> Assigned(Mul(Spot, cdf(Neg(d1))))
       [] OTHER -> Thrown

BlackScholesType(Spot, Strike, r, T, type, d1, d2, val) ==
  LET disc == exp(Mul(Neg(r), T))
  IN CASE type = "van call" ->
            Assigned(Sub(Mul(Spot, cdf(d1)), Mul(Mul(Strike, disc), cdf(d2))))
       [] type = "van put" ->
            Assigned(Add(Mul(Neg(Spot), cdf(Neg(d1))),
                         Mul(Mul(Strike, disc), cdf(Neg(d2)))))
       [] type = "con call" -> Assigned(Mul(disc, cdf(d2)))
       [] type = "con put" -> Assigned(Mul(disc, cdf(Neg(d2))))
       [] type = "aon call" -> Assigned(Mul(Spot, pdf(d1)))
       [] type = "aon put" -> Assigned(Mul(Spot, pdf(Neg(d1))))
       [] OTHER -> Thrown

BlackScholes(Spot, Strike, r, Vol, T, type, val) ==
  LET d1 == BlackScholesD1(Spot, Strike, r, Vol, T)
      d2 == BlackScholesD2(Spot, Strike, r, Vol, T)
      offs == BlackScholesDClass(Spot, Strike, r, Vol, T)
  IN  IF Spot = Strike
      THEN [kind |-> "return", val |-> BlackScholesAtm(Spot, Vol, T),
            steps |-> <<"d1", "d2", "Spot == Strike">>, offs |-> offs]
      ELSE LET d == BlackScholesType(Spot, Strike, r, T, type, d1, d2, val)
           IN [kind |-> d.kind, val |-> d.val,
               steps |-> <<"d1", "d2", "Spot == Strike", "type">>, offs |-> offs]

\* -------------------------------------------------------------------- state
VARIABLES
  mode,      \* which program is linked with the pricers: "main" or "client"
  call,      \* the last pricer call: function name and arguments
  outcome,   \* how that call ended: returned value or exception, and its steps
  link,      \* how the last call relates to the call before it
  mainPc,    \* source line of the next statement of main
  status,    \* "running", "exited" or "aborted"
  exitCode,  \* exit status of the process, -1 while it runs
  stdout,    \* the lines written and flushed so far
  pending    \* text written to cout and not yet flushed

vars == <<mode, call, outcome, link, mainPc, status, exitCode, stdout, pending>>

\* ------------------------------------------------ the last call, by argument
Type(c) == c.args[Len(c.args)]
Numeric(c) == SubSeq(c.args, 1, Len(c.args) - 1)
SpotOf(c) == c.args[1]
StrikeOf(c) == c.args[2]
RateOf(c) == c.args[3]
VolOf(c) == IF c.fn = "Bachelier" THEN c.args[3] ELSE c.args[4]
TOf(c) == IF c.fn = "Bachelier" THEN c.args[4] ELSE c.args[5]
Called == call.fn # "none"

\* history: the call c follows the call p
Link(p, c) ==
  IF p = c THEN "same"
  ELSE IF /\ p.fn = c.fn
          /\ Numeric(p) = Numeric(c)
          /\ <<Type(p), Type(c)>> \in {<<"van call", "van put">>,
                                        <<"con call", "con put">>,
                                        <<"aon call", "aon put">>}
       THEN "put after call"
       ELSE "other"

NoCall == [fn |-> "none", args |-> <<>>]
NoOutcome == [kind |-> "none", val |-> <<>>, steps |-> <<>>, offs |-> "none"]

Spots == {Dbl(n, 1) : n \in 1..MaxSpot}
Strikes == {Dbl(n, 1) : n \in 1..MaxStrike}
Vols == {Dbl(n, 1) : n \in 0..MaxVol}
Ts == {Dbl(n, 1) : n \in 0..MaxT}
Rates == {Dbl(n, 1) : n \in 0..MaxRate}

Init ==
  /\ mode \in {"main", "client"}
  /\ call = NoCall
  /\ outcome = NoOutcome
  /\ link = "other"
  /\ mainPc = 14
  /\ status = "running"
  /\ exitCode = -1
  /\ stdout = <<>>
  /\ pending = <<>>

mainVars == <<mainPc, status, exitCode, stdout, pending>>

\* ------------------------------------------------- calls of a client program
CallBachelier ==
  /\ mode = "client"
  /\ \E Spot \in Spots, Strike \in Strikes, Vol \in Vols, T \in Ts,
        type \in AllTypes, val \in Indeterminate :
       LET c == [fn |-> "Bachelier", args |-> <<Spot, Strike, Vol, T, type>>]
           o == Bachelier(Spot, Strike, Vol, T, type, val)
       IN /\ call' = c
          /\ outcome' = o
          /\ link' = Link(call, c)
  /\ UNCHANGED <<mode, mainVars>>

CallBlackScholes ==
  /\ mode = "client"
  /\ \E Spot \in Spots, Strike \in Strikes, r \in Rates, Vol \in Vols, T \in Ts,
        type \in AllTypes, val \in Indeterminate :
       LET c == [fn |-> "BlackScholes", args |-> <<Spot, Strike, r, Vol, T, type>>]
           o == BlackScholes(Spot, Strike, r, Vol, T, type, val)
       IN /\ call' = c
          /\ outcome' = o
          /\ link' = Link(call, c)
  /\ UNCHANGED <<mode, mainVars>>

\* --------------------------------------------------------------------- main
\* the statements of main that print a price: line |-> label, pricer, type
Statements ==
  [l \in (15..20) \cup (23..28) |->
     CASE l = 15 -> <<"Vanilla Call:", "Bachelier", "van call">>
       [] l = 16 -> <<"Vanilla Put:", "Bachelier", "van put">>
       [] l = 17 -> <<"CoN Call:", "Bachelier", "con call">>
       [] l = 18 -> <<"CoN Put:", "Bachelier", "con put">>
       [] l = 19 -> <<"AoN Call:", "Bachelier", "aon call">>
       [] l = 20 -> <<"AoN Put:", "Bachelier", "aon put">>
       [] l = 23 -> <<"Vanilla Call:", "BlackScholes", "van call">>
       [] l = 24 -> <<"Vanilla Put:", "BlackScholes", "van put">>
       [] l = 25 -> <<"CoN Call:", "BlackScholes", "con call">>
       [] l = 26 -> <<"CoN Put:", "BlackScholes", "con put">>
       [] l = 27 -> <<"AoN Call:", "BlackScholes", "aon call">>
       [] l = 28 -> <<"AoN Put:", "BlackScholes", "aon putt">>]

NextLine(l) == IF l = 20 THEN 22 ELSE IF l = 28 THEN 30 ELSE l + 1

\* the pricer call of the statement at line l, with main's parameters
MainCall(l, val) ==
  LET So == Dbl(50, 1)
      K == Dbl(20, 1)
      r == Dbl(13, 100)
      sigma == Dbl(1, 5)
      T == Dbl(4, 1)
      st == Statements[l]
  IN IF st[2] = "Bachelier"
     THEN [call |-> [fn |-> "Bachelier", args |-> <<So, K, sigma, T, st[3]>>],
           outcome |-> Bachelier(So, K, sigma, T, st[3], val)]
     ELSE [call |-> [fn |-> "BlackScholes", args |-> <<So, K, r, sigma, T, st[3]>>],
           outcome |-> BlackScholes(So, K, r, sigma, T, st[3], val)]

\* what an exception leaving a pricer call does to main: nothing catches it
UncaughtCaught(l) == [status |-> "running", exitCode |-> -1, mainPc |-> NextLine(l)]

Uncaught(l) == [status |-> "aborted", exitCode |-> 134, mainPc |-> l]

\* cout << "Bachelier model" << endl;   cout << "Black-Scholes model" << endl << endl;
MainHeader ==
  /\ mode = "main" /\ status = "running" /\ mainPc \in {14, 22}
  /\ stdout' = IF mainPc = 14
               THEN Append(stdout, <<"Bachelier model", <<>>>>)
               ELSE stdout \o << <<"Black-Scholes model", <<>>>>, <<"", <<>>>> >>
  /\ mainPc' = mainPc + 1
  /\ UNCHANGED <<mode, call, outcome, link, status, exitCode, pending>>

\* cout << label << Pricer(...) << endl;
MainPrice ==
  /\ mode = "main" /\ status = "running" /\ mainPc \in DOMAIN Statements
  /\ \E val \in Indeterminate :
       LET m == MainCall(mainPc, val)
           label == Statements[mainPc][1]
       IN /\ call' = m.call
          /\ outcome' = m.outcome
          /\ link' = Link(call, m.call)
          /\ IF m.outcome.kind = "return"
             THEN /\ stdout' = Append(stdout, <<label, m.outcome.val>>)
                  /\ pending' = <<>>
                  /\ mainPc' = NextLine(mainPc)
                  /\ UNCHANGED <<status, exitCode>>
             ELSE LET u == Uncaught(mainPc)
                  IN /\ status' = u.status
                     /\ exitCode' = u.exitCode
                     /\ mainPc' = u.mainPc
                     \* the label may have been written before the call
                     \* and may or may not survive the abort
                     /\ pending' \in {<<>>, <<label>>}
                     /\ UNCHANGED stdout
  /\ UNCHANGED mode

\* return 0;
MainReturn ==
  /\ mode = "main" /\ status = "running" /\ mainPc = 30
  /\ status' = "exited"
  /\ exitCode' = 0
  /\ mainPc' = 31
  /\ UNCHANGED <<mode, call, outcome, link, stdout, pending>>

\* main executes the statement at mainPc; line 30 is reached only if the
\* twelve pricer calls before it have all returned
Main ==
  IF mainPc \in {14, 22} THEN MainHeader
  ELSE IF mainPc = 30 THEN MainReturn
  ELSE MainPrice

Next == CallBachelier \/ CallBlackScholes \/ Main

Spec == Init /\ [][Next]_vars

\* --------------------------------------- real arithmetic on the expressions
\* Rationals are pairs <<n, d>> in lowest terms, d > 0.  An expression is
\* brought to a polynomial with rational coefficients over the library calls
\* it contains: a function from monomials (bags of atoms) to coefficients.
\* The only law used about the library is cdf(-x) = 1 - cdf(x).
Abs(n) == IF n < 0 THEN -n ELSE n

RECURSIVE Gcd(_, _)
Gcd(a, b) == IF b = 0 THEN a ELSE Gcd(b, a % b)

Rat(n, d) ==
  LET g == Gcd(Abs(n), Abs(d))
      sg == IF d < 0 THEN -1 ELSE 1
  IN <<(sg * n) \div g, (sg * d) \div g>>

RAdd(p, q) == Rat(p[1] * q[2] + q[1] * p[2], p[2] * q[2])
RMul(p, q) == Rat(p[1] * q[1], p[2] * q[2])

\* sum of p[x[1]] * q[x[2]] over the pairs x of monomials in S
RECURSIVE SumProd(_, _, _)
SumProd(S, p, q) ==
  IF S = {} THEN <<0, 1>>
  ELSE LET x == CHOOSE y \in S : TRUE
       IN RAdd(RMul(p[x[1]], q[x[2]]), SumProd(S \ {x}, p, q))

PZero == [m \in {} |-> <<0, 1>>]
PConst(q) == IF q[1] = 0 THEN PZero ELSE [m \in {EmptyBag} |-> q]
PAtom(a) == [m \in {SetToBag({a})} |-> <<1, 1>>]
Coef(p, m) == IF m \in DOMAIN p THEN p[m] ELSE <<0, 1>>

PAdd(p, q) ==
  LET c(m) == RAdd(Coef(p, m), Coef(q, m))
  IN [m \in {k \in DOMAIN p \cup DOMAIN q : c(k)[1] # 0} |-> c(m)]

PMul(p, q) ==
  LET pairs == (DOMAIN p) \X (DOMAIN q)
      c(m) == SumProd({x \in pairs : x[1] (+) x[2] = m}, p, q)
  IN [m \in {k \in {x[1] (+) x[2] : x \in pairs} : c(k)[1] # 0} |-> c(m)]

PNeg(p) == PMul(PConst(<<-1, 1>>), p)

RECURSIVE Norm(_)
Norm(e) ==
  CASE e[1] = "num" -> PConst(Rat(e[2], e[3]))
    [] e[1] = "neg" -> PNeg(Norm(e[2]))
    [] e[1] = "add" -> PAdd(Norm(e[2]), Norm(e[3]))
    [] e[1] = "sub" -> PAdd(Norm(e[2]), PNeg(Norm(e[3])))
    [] e[1] = "mul" -> PMul(Norm(e[2]), Norm(e[3]))
    [] e[1] = "cdf" /\ e[2][1] = "neg" ->
         PAdd(PConst(<<1, 1>>), PNeg(PAtom(<<"cdf", e[2][2]>>)))
    [] OTHER -> PAtom(e)

SameReal(a, b) == Norm(a) = Norm(b)

\* ------------------------------------------------------------------- claims
\* C1: for both pricers and all numeric arguments, a call whose type is not
\* one of the six tokens fails with invalid_argument and returns no price.
C1_InvalidTypeRejected ==
  (Called /\ Type(call) \notin Types) =>
     (outcome.kind = "throw" /\ outcome.val = invalid_argument)

\* C2: main, once it has ended, has printed one result line for each of the
\* 12 (model, variant) pairs and has exited normally with code 0.
ResultLines == SelectSeq(stdout, LAMBDA ln : ln[2] # <<>>)

C2_MainPrintsAllAndExits ==
  (mode = "main" /\ status # "running") =>
     (status = "exited" /\ exitCode = 0 /\ Len(ResultLines) = 12)

\* C3: at the money (Spot == Strike) and with a recognized type, both pricers
\* return Vol * Spot * sqrt(0.5 * T / pi), whatever the type and the rate, also
\* when Vol or T is zero and the offsets are not numbers.
C3_AtTheMoney ==
  (Called /\ SpotOf(call) = StrikeOf(call) /\ Type(call) \in Types) =>
     /\ outcome.kind = "return"
     /\ outcome.val =
          Mul(Mul(VolOf(call), SpotOf(call)),
              sqrt(Div(Mul(Dbl(1, 2), TOf(call)), <<"pi">>)))

C3_Witness ==
  /\ Called /\ call.fn = "BlackScholes"
  /\ SpotOf(call) = StrikeOf(call) /\ Type(call) \in Types
  /\ IsZero(VolOf(call)) /\ outcome.offs = "nan"
  /\ outcome.kind = "return"

\* a BlackScholes call of type t2 directly after one of type t1 with the same
\* numeric arguments
Pair(t1, t2) ==
  /\ call.fn = "BlackScholes" /\ call'.fn = "BlackScholes"
  /\ Type(call) = t1 /\ Type(call') = t2
  /\ Numeric(call) = Numeric(call')

Discount(c) == exp(Mul(Neg(RateOf(c)), TOf(c)))

\* C4 as stated: for all inputs, BlackScholes "con call" plus BlackScholes
\* "con put" equals exp(-r*T), given cdf(x) + cdf(-x) = 1.
C4_ConParityAll ==
  [][Pair("con call", "con put") =>
       /\ outcome.kind = "return" /\ outcome'.kind = "return"
       /\ SameReal(Add(outcome.val, outcome'.val), Discount(call))]_vars

\* C4 amended: for Spot # Strike, BlackScholes "con call" plus BlackScholes
\* "con put" equals exp(-r*T), given cdf(x) + cdf(-x) = 1.
C4_ConParity ==
  [][(Pair("con call", "con put") /\ SpotOf(call) # StrikeOf(call)) =>
       /\ outcome.kind = "return" /\ outcome'.kind = "return"
       /\ SameReal(Add(outcome.val, outcome'.val), Discount(call))]_vars

C4_Witness ==
  /\ call.fn = "BlackScholes" /\ Type(call) = "con put"
  /\ link = "put after call"
  /\ SpotOf(call) # StrikeOf(call)
  /\ ~IsZero(RateOf(call)) /\ outcome.offs = "finite"
  /\ outcome.kind = "return"

\* C5: for Spot # Strike, BlackScholes "van call" minus BlackScholes "van put"
\* equals Spot - Strike * exp(-r*T), given cdf(x) + cdf(-x) = 1.
C5_PutCallParity ==
  [][(Pair("van call", "van put") /\ SpotOf(call) # StrikeOf(call)) =>
       /\ outcome.kind = "return" /\ outcome'.kind = "return"
       /\ SameReal(Sub(outcome.val, outcome'.val),
                   Sub(SpotOf(call), Mul(StrikeOf(call), Discount(call))))]_vars

C5_Witness ==
  /\ call.fn = "BlackScholes" /\ Type(call) = "van put"
  /\ link = "put after call"
  /\ SpotOf(call) # StrikeOf(call)
  /\ ~IsZero(RateOf(call)) /\ outcome.offs = "finite"
  /\ outcome.kind = "return"

\* C6: for Spot # Strike each of the six tokens makes Bachelier return the
\* formula of its own row, at xs = (Strike - Spot) / (Spot * Vol * sqrt(T)).
C6_Row(Spot, Strike, Vol, T, type) ==
  LET xs == Div(Sub(Strike, Spot), Mul(Mul(Spot, Vol), sqrt(T)))
      SVsT == Mul(Mul(Spot, Vol), sqrt(T))
  IN CASE type = "van call" ->
            Add(Mul(Sub(Spot, Strike), cdf(Neg(xs))), Mul(SVsT, pdf(Neg(xs))))
       [] type = "van put" ->
            Add(Mul(Sub(Strike, Spot), cdf(xs)), Mul(SVsT, pdf(xs)))
       [] type = "con call" -> cdf(Neg(xs))
       [] type = "con put" -> cdf(xs)
       [] type = "aon call" -> Add(Mul(Spot, cdf(Neg(xs))), Mul(SVsT, pdf(Neg(xs))))
       [] type = "aon put" -> Sub(Mul(Spot, cdf(xs)), Mul(SVsT, pdf(xs)))

C6_BachelierDispatch ==
  (call.fn = "Bachelier" /\ SpotOf(call) # StrikeOf(call) /\ Type(call) \in Types) =>
     /\ outcome.kind = "return"
     /\ outcome.val = C6_Row(SpotOf(call), StrikeOf(call), VolOf(call),
                             TOf(call), Type(call))

C6_Witness ==
  /\ call.fn = "Bachelier" /\ SpotOf(call) # StrikeOf(call)
  /\ Type(call) = "aon put" /\ outcome.offs = "finite"
  /\ outcome.kind = "return"

\* C7: for Spot # Strike each of the six tokens makes BlackScholes return the
\* formula of its own row at the shared d1 and d2; the asset-or-nothing rows
\* use pdf of d1 and neither d2 nor the discount factor.
C7_Row(Spot, Strike, r, Vol, T, type) ==
  LET lnSK == log(Div(Spot, Strike))
      VsT == Mul(Vol, sqrt(T))
      d1 == Div(Add(lnSK, Mul(Add(r, Mul(Mul(Dbl(1, 2), Vol), Vol)), T)), VsT)
      d2 == Div(Add(lnSK, Mul(Sub(r, Mul(Mul(Dbl(1, 2), Vol), Vol)), T)), VsT)
      D == exp(Mul(Neg(r), T))
  IN CASE type = "van call" -> Sub(Mul(Spot, cdf(d1)), Mul(Mul(Strike, D), cdf(d2)))
       [] type = "van put" ->
            Add(Mul(Neg(Spot), cdf(Neg(d1))), Mul(Mul(Strike, D), cdf(Neg(d2))))
       [] type = "con call" -> Mul(D, cdf(d2))
       [] type = "con put" -> Mul(D, cdf(Neg(d2)))
       [] type = "aon call" -> Mul(Spot, pdf(d1))
       [] type = "aon put" -> Mul(Spot, pdf(Neg(d1)))

C7_BlackScholesDispatch ==
  (call.fn = "BlackScholes" /\ SpotOf(call) # StrikeOf(call)
     /\ Type(call) \in Types) =>
     /\ outcome.kind = "return"
     /\ outcome.val = C7_Row(SpotOf(call), StrikeOf(call), RateOf(call),
                             VolOf(call), TOf(call), Type(call))

C7_Witness ==
  /\ call.fn = "BlackScholes" /\ SpotOf(call) # StrikeOf(call)
  /\ Type(call) = "aon call" /\ outcome.offs = "finite"
  /\ outcome.kind = "return"

\* C8: when a pricer call of main fails, main is aborted at that call: the
\* result lines of exactly the earlier calls are on stdout in source order,
\* the exit code is not 0, and nothing is printed afterwards.
PriceLines == <<15, 16, 17, 18, 19, 20, 23, 24, 25, 26, 27, 28>>

MainFailed == mode = "main" /\ outcome.kind = "throw"

C8_UncaughtAborts ==
  /\ [](MainFailed =>
          /\ status = "aborted" /\ exitCode # 0
          /\ Len(ResultLines) = Cardinality({i \in 1..12 : PriceLines[i] < mainPc})
          /\ \A i \in 1..Len(ResultLines) :
                ResultLines[i][1] = Statements[PriceLines[i]][1])
  /\ [][MainFailed => (stdout' = stdout /\ status' = status
                         /\ exitCode' = exitCode)]_vars

C8_Witness ==
  /\ MainFailed /\ status = "aborted" /\ mainPc = 28
  /\ Len(ResultLines) = 11

C10_NoPartialComputation ==
  (Called /\ Type(call) \notin Types /\ outcome.kind = "throw") =>
     \A i \in 1..Len(outcome.steps) :
        outcome.steps[i] \notin {"xs", "d1", "d2", "Spot == Strike"}

====
